---- MODULE Spec2Model ----
(***************************************************************************)
(* joinslog: Handlers(hs...) joins slog handlers into one handler.         *)
(*                                                                         *)
(* A handler value is a record tagged by its Go type:                      *)
(*   nil       the nil interface value                                     *)
(*   leaf      a handler that is not internal (id, decor: the WithAttrs /  *)
(*             WithGroup calls it has received, in order)                  *)
(*   handler0  struct{}                                                    *)
(*   handler2  [2]slog.Handler, an array VALUE (copied on assignment)      *)
(*   handlers  []slog.Handler, a slice: a view of a backing array          *)
(*                                                                         *)
(* A handler slice names its backing store.  store = "caller" is the       *)
(* array behind the variadic argument (the variable `slice`, which the     *)
(* caller may write at any time); store = "own" is an array allocated      *)
(* inside this package, reachable only through the slice that holds it,    *)
(* so its cells travel with the value (elems).                             *)
(*                                                                         *)
(* An attribute slice is [arr, off, len, cap] over the attribute memory    *)
(* (array id -> cells); off is the 0-based index of its first cell.        *)
(***************************************************************************)
EXTENDS Integers, Sequences, FiniteSets, TLC

\* Bounds of the model.
NLeaves == 2        \* distinct leaf handlers the caller owns
SliceCap == 3       \* capacity of the caller's handler array
MaxFlat == 4        \* largest flattened child count explored
MaxDecor == 1       \* WithAttrs/WithGroup calls a leaf receives in Spec
MaxWrites == 1      \* writes to its array the caller makes after a Handlers call
MaxKids == 4        \* largest composite in SpecCall, SpecAttrs and SpecConc
MaxAttrLen == 2     \* len(attrs)
MaxAttrCap == 6     \* cap(attrs)

VARIABLES
    slice,      \* the caller's handler array, passed to the last Handlers call
    multi,      \* the handler most recently returned to the caller
    expect,     \* ghost: the leaves the arguments of the last Handlers call expand to
    made,       \* ghost: multi's leaves when it was returned
    touched,    \* ghost: how often the caller wrote `slice` after multi was returned
    op,         \* the last call made
    beh,        \* the leaves' behaviour during the last Enabled/Handle call
    ret,        \* what the last Enabled/Handle call returned
    trace,      \* the child events of the last Handle call
    amem,       \* attribute memory: array id -> cells
    acall,      \* the attribute slice the caller passed to WithAttrs
    res,        \* the handler WithAttrs returned
    dirty,      \* ghost: caller-array cells (0-based) written after WithAttrs returned
    alen,       \* the caller's own view of its attribute slice: its length
    pc,         \* SpecConc: per caller, "idle" or "run" (inside a call)
    cop,        \* the method it is in
    ci,         \* the child its loop is at
    cattrs,     \* its attrs variable
    reads,      \* the locations its call has read
    writes,     \* the locations its call has written
    owned       \* the attribute arrays its call has allocated

vars == <<slice, multi, expect, made, touched, op, beh, ret, trace,
          amem, acall, res, dirty, alen, pc, cop, ci, cattrs, reads, writes, owned>>
structVars == <<slice, multi, expect, made, touched, op, beh, ret, trace>>
attrVars == <<amem, acall, res, dirty, alen>>
concVars == <<pc, cop, ci, cattrs, reads, writes, owned>>

----------------------------------------------------------------------------
\* Handler values.

NilH == [kind |-> "nil"]
Leaf(i) == [kind |-> "leaf", id |-> i, decor |-> <<>>]
handler0 == [kind |-> "handler0"]
handler2(a, b) == [kind |-> "handler2", hs |-> <<a, b>>]
handlers(s) == [kind |-> "handlers", store |-> s.store, elems |-> s.elems,
                len |-> s.len, cap |-> s.cap]

NilSlice == [store |-> "own", elems |-> <<>>, len |-> 0, cap |-> 0]
OwnSlice(es) == [store |-> "own", elems |-> es, len |-> Len(es), cap |-> Len(es)]
\* arr[:n], arr the caller's array
CallerSlice(arr, n) == [store |-> "caller", elems |-> <<>>, len |-> n, cap |-> Len(arr)]

\* The elements s[0:len(s)], read from the array s views.
SliceElems(arr, s) == IF s.store = "caller" THEN SubSeq(arr, 1, s.len) ELSE s.elems

\* h.(internal): the types of this package that have a handlers() method.
internal(h) == h.kind \in {"handler0", "handler2", "handlers"}

\* handler0.handlers, handler2.handlers, handlers.handlers
handlersOf(arr, h) ==
    CASE h.kind = "handler0" -> <<>>
      [] h.kind = "handler2" -> h.hs
      [] h.kind = "handlers" -> SliceElems(arr, h)

\* runtime growslice for the small slices of 16-byte interface values built
\* here (no size-class rounding below 16 elements).
GrowCap(oldcap, newlen) == IF newlen > 2 * oldcap THEN newlen ELSE 2 * oldcap

\* append(s, xs...): in place when cap(s) allows, else into a new array.
append(arr, s, xs) ==
    LET n == s.len + Len(xs) IN
    IF n <= s.cap
    THEN IF s.store = "caller"
         THEN [arr |-> [i \in 1..Len(arr) |->
                          IF i > s.len /\ i <= n THEN xs[i - s.len] ELSE arr[i]],
               s |-> [s EXCEPT !.len = n]]
         ELSE [arr |-> arr, s |-> [s EXCEPT !.elems = @ \o xs, !.len = n]]
    ELSE [arr |-> arr,
          s |-> [store |-> "own", elems |-> SliceElems(arr, s) \o xs,
                 len |-> n, cap |-> GrowCap(s.cap, n)]]

\* The loop of Handlers over hs[i..], accumulating into flat.
RECURSIVE flatten(_, _, _, _)
flatten(arr, hs, i, flat) ==
    IF i > hs.len THEN [arr |-> arr, flat |-> flat]
    ELSE LET h == SliceElems(arr, hs)[i] IN
         IF h.kind = "nil" THEN flatten(arr, hs, i + 1, flat)
         ELSE LET r == IF internal(h)
                       THEN append(arr, flat, handlersOf(arr, h))
                       ELSE append(arr, flat, <<h>>)
              IN flatten(r.arr, hs, i + 1, r.s)

\* A slip: no case for two handlers, a pair becomes a two-element list.
selectReprNoPair(f) ==
    LET flat == f.flat
        e == SliceElems(f.arr, flat)
    IN [arr |-> f.arr,
        h |-> CASE flat.len = 0 -> handler0
                [] flat.len = 1 -> e[1]
                [] OTHER -> IF flat.cap = flat.len
                            THEN handlers(flat)
                            ELSE handlers(OwnSlice(e))]

\* The switch on len(flat).
selectRepr(f) ==
    LET flat == f.flat
        e == SliceElems(f.arr, flat)
    IN [arr |-> f.arr,
        h |-> CASE flat.len = 0 -> handler0
                [] flat.len = 1 -> e[1]
                [] flat.len = 2 -> handler2(e[1], e[2])
                [] OTHER -> IF flat.cap = flat.len
                            THEN handlers(flat)
                            ELSE handlers(OwnSlice(e))]

\* A plausible slip: filtering the argument in place (flat := hs[:0]).
HandlersInPlace(arr, hs) == selectRepr(flatten(arr, hs, 1, [hs EXCEPT !.len = 0]))

\* Another: composites are kept as children instead of being expanded.
RECURSIVE noFlatten(_, _, _, _)
noFlatten(arr, hs, i, flat) ==
    IF i > hs.len THEN [arr |-> arr, flat |-> flat]
    ELSE LET h == SliceElems(arr, hs)[i] IN
         IF h.kind = "nil" THEN noFlatten(arr, hs, i + 1, flat)
         ELSE LET r == append(arr, flat, <<h>>) IN noFlatten(r.arr, hs, i + 1, r.s)
HandlersNested(arr, hs) == selectRepr(noFlatten(arr, hs, 1, NilSlice))

\* Handlers(hs...): the caller's array afterwards and the handler returned.
Handlers(arr, hs) == selectRepr(flatten(arr, hs, 1, NilSlice))

----------------------------------------------------------------------------
\* Leaves: handlers of other packages.  During one Enabled/Handle call leaf i
\* behaves as b[i]: en is its Enabled at the record's level, fail whether its
\* Handle returns an error, mut whether its Handle modifies the record it got
\* (a leaf that is not enabled is not observed to do either).

Behaviour == {[en |-> FALSE, fail |-> FALSE, mut |-> FALSE]}
                 \cup [en : {TRUE}, fail : BOOLEAN, mut : BOOLEAN]
NoErr == [kind |-> "noerr"]
Err(i) == [kind |-> "err", id |-> i]

\* errors.Join: nil values are discarded; nil if none is left.
Join(errs) ==
    LET nz == SelectSeq(errs, LAMBDA e : e.kind # "noerr") IN
    IF Len(nz) = 0 THEN NoErr ELSE [kind |-> "join", errs |-> nz]

\* errors.Is
RECURSIVE Is(_, _)
Is(err, target) ==
    \/ err = target
    \/ /\ err.kind = "join"
       /\ \E i \in 1..Len(err.errs) : Is(err.errs[i], target)

RECURSIVE HEnabled(_, _, _)
RECURSIVE handler2Enabled(_, _, _)
RECURSIVE handlersEnabled(_, _, _)
RECURSIVE HHandle(_, _, _, _, _)
RECURSIVE handler2Handle(_, _, _, _, _)
RECURSIVE handlersHandle(_, _, _, _, _)
RECURSIVE HWithGroup(_, _, _)
RECURSIVE HWithAttrs(_, _, _, _)

handler0Enabled(h, b) == FALSE

\* A slip: only the first child is asked.
handler2EnabledFirst(arr, h, b) == HEnabled(arr, h.hs[1], b)

handler2Enabled(arr, h, b) ==
    HEnabled(arr, h.hs[1], b) \/ HEnabled(arr, h.hs[2], b)

handlersEnabled(arr, h, b) ==
    \E i \in 1..h.len : HEnabled(arr, SliceElems(arr, h)[i], b)

\* h.Enabled(ctx, level) through the slog.Handler interface.
HEnabled(arr, h, b) ==
    CASE h.kind = "leaf" -> b[h.id].en
      [] h.kind = "handler0" -> handler0Enabled(h, b)
      [] h.kind = "handler2" -> handler2Enabled(arr, h, b)
      [] h.kind = "handlers" -> handlersEnabled(arr, h, b)

\* The state of one Handle call: the records alive (id -> content; 0 is the
\* caller's), the next record id, and the events so far.
HandleInit == [recs |-> (0 :> "orig"), next |-> 1, trace |-> <<>>]
Event(e, pos, rec, saw) == [ev |-> e, pos |-> pos, rec |-> rec, saw |-> saw]

\* A slip: the record is handed on without a copy.
CloneShared(st, r) == [id |-> r, st |-> st]

\* r.Clone(): a new record with the same content and no shared state.
Clone(st, r) ==
    [id |-> st.next,
     st |-> [st EXCEPT !.recs = @ @@ (st.next :> st.recs[r]),
                       !.next = @ + 1,
                       !.trace = Append(@, Event("clone", 0, st.next, st.recs[r]))]]

\* hs[pos].Handle(ctx, rec): the call, what the child does, the return.
dispatch(arr, child, pos, st, rec, b) ==
    LET s1 == [st EXCEPT !.trace = Append(@, Event("call", pos, rec, st.recs[rec]))]
        r == HHandle(arr, child, s1, rec, b)
    IN [err |-> r.err,
        st |-> [r.st EXCEPT !.trace = Append(@, Event("ret", pos, rec, r.st.recs[rec]))]]

leafHandle(h, st, rec, b) ==
    [err |-> IF b[h.id].fail THEN Err(h.id) ELSE NoErr,
     st |-> [st EXCEPT !.recs[rec] = IF b[h.id].mut THEN "changed" ELSE @]]

handler0Handle(h, st, rec, b) == [err |-> NoErr, st |-> st]

\* A slip: the second child is skipped once the first has failed.
handler2HandleFailFast(arr, h, st, r, b) ==
    LET c == Clone(st, r)
        d1 == IF HEnabled(arr, h.hs[1], b)
              THEN dispatch(arr, h.hs[1], 1, c.st, c.id, b)
              ELSE [err |-> NoErr, st |-> st]
        d2 == IF d1.err.kind = "noerr" /\ HEnabled(arr, h.hs[2], b)
              THEN dispatch(arr, h.hs[2], 2, d1.st, r, b)
              ELSE [err |-> NoErr, st |-> d1.st]
    IN [err |-> IF d1.err.kind = "noerr" THEN d2.err ELSE d1.err, st |-> d2.st]

\* A slip: both errors are always joined.
handler2HandleAlwaysJoin(arr, h, st, r, b) ==
    LET c == Clone(st, r)
        d1 == IF HEnabled(arr, h.hs[1], b)
              THEN dispatch(arr, h.hs[1], 1, c.st, c.id, b)
              ELSE [err |-> NoErr, st |-> st]
        d2 == IF HEnabled(arr, h.hs[2], b)
              THEN dispatch(arr, h.hs[2], 2, d1.st, r, b)
              ELSE [err |-> NoErr, st |-> d1.st]
    IN [err |-> Join(<<d1.err, d2.err>>), st |-> d2.st]

handler2Handle(arr, h, st, r, b) ==
    LET c == Clone(st, r)
        d1 == IF HEnabled(arr, h.hs[1], b)
              THEN dispatch(arr, h.hs[1], 1, c.st, c.id, b)
              ELSE [err |-> NoErr, st |-> st]
        d2 == IF HEnabled(arr, h.hs[2], b)
              THEN dispatch(arr, h.hs[2], 2, d1.st, r, b)
              ELSE [err |-> NoErr, st |-> d1.st]
        errs == <<d1.err, d2.err>>
    IN [err |-> IF errs[1].kind = "noerr" THEN errs[2]
                ELSE IF errs[2].kind = "noerr" THEN errs[1]
                ELSE Join(errs),
        st |-> d2.st]

\* The first loop of handlers.Handle, over hs[i .. len(hs)-1).
RECURSIVE handleLoop(_, _, _, _, _, _, _)
handleLoop(arr, h, i, st, r, b, errs) ==
    IF i > h.len - 1 THEN [errs |-> errs, st |-> st]
    ELSE LET child == SliceElems(arr, h)[i] IN
         IF HEnabled(arr, child, b)
         THEN LET c == Clone(st, r)
                  d == dispatch(arr, child, i, c.st, c.id, b)
              IN handleLoop(arr, h, i + 1, d.st, r, b,
                            IF d.err.kind # "noerr" THEN Append(errs, d.err) ELSE errs)
         ELSE handleLoop(arr, h, i + 1, st, r, b, errs)

handlersHandle(arr, h, st, r, b) ==
    LET l == handleLoop(arr, h, 1, st, r, b, <<>>)
        last == SliceElems(arr, h)[h.len]
        d == IF HEnabled(arr, last, b)
             THEN dispatch(arr, last, h.len, l.st, r, b)
             ELSE [err |-> NoErr, st |-> l.st]
        errs == IF d.err.kind # "noerr" THEN Append(l.errs, d.err) ELSE l.errs
    IN [err |-> CASE Len(errs) = 0 -> NoErr
                  [] Len(errs) = 1 -> errs[1]
                  [] OTHER -> Join(errs),
        st |-> d.st]

\* h.Handle(ctx, r) through the slog.Handler interface.
HHandle(arr, h, st, r, b) ==
    CASE h.kind = "leaf" -> leafHandle(h, st, r, b)
      [] h.kind = "handler0" -> handler0Handle(h, st, r, b)
      [] h.kind = "handler2" -> handler2Handle(arr, h, st, r, b)
      [] h.kind = "handlers" -> handlersHandle(arr, h, st, r, b)

----------------------------------------------------------------------------
\* WithGroup.  A decoration a leaf has received: the group name, or the
\* attribute slice it was handed (buf) and what the slice held then (vals).

NoBuf == [arr |-> -1, off |-> 0, len |-> 0, cap |-> 0]
GroupDecor(name) == [op |-> "group", name |-> name, buf |-> NoBuf, vals |-> <<>>]
AttrsDecor(buf, vals) == [op |-> "attrs", name |-> "", buf |-> buf, vals |-> vals]

leafWithGroup(h, name) == [h EXCEPT !.decor = Append(@, GroupDecor(name))]

handler0WithGroup(h, name) == h

handler2WithGroup(arr, h, name) ==
    handler2(HWithGroup(arr, h.hs[1], name), HWithGroup(arr, h.hs[2], name))

handlersWithGroup(arr, h, name) ==
    handlers(OwnSlice([i \in 1..h.len |-> HWithGroup(arr, SliceElems(arr, h)[i], name)]))

HWithGroup(arr, h, name) ==
    CASE h.kind = "leaf" -> leafWithGroup(h, name)
      [] h.kind = "handler0" -> handler0WithGroup(h, name)
      [] h.kind = "handler2" -> handler2WithGroup(arr, h, name)
      [] h.kind = "handlers" -> handlersWithGroup(arr, h, name)

----------------------------------------------------------------------------
\* Attribute memory and WithAttrs.

\* Attribute values: the zero slog.Attr, and the i-th attribute a caller passes.
ZeroAttr == <<"zero", 0>>
AttrVal(i) == <<"attr", i>>
FreshArr(mem) == CHOOSE a \in 0..Cardinality(DOMAIN mem) : a \notin DOMAIN mem

\* The cells [off, off+cap) of its array that a slice can reach.
Cells(s) == {<<s.arr, j>> : j \in s.off .. (s.off + s.cap - 1)}
\* attrs[0:len]
Read(mem, s) == [i \in 1..s.len |-> mem[s.arr][s.off + i]]

\* make([]slog.Attr, n)
make(mem, n) ==
    LET id == FreshArr(mem) IN
    [mem |-> mem @@ (id :> [i \in 1..n |-> ZeroAttr]),
     s |-> [arr |-> id, off |-> 0, len |-> n, cap |-> n]]

\* copy(dst, src)
copy(mem, dst, src) ==
    LET n == IF dst.len < src.len THEN dst.len ELSE src.len IN
    [mem EXCEPT ![dst.arr] =
        [j \in DOMAIN @ |-> IF (j - dst.off) \in 1..n
                            THEN mem[src.arr][src.off + (j - dst.off)]
                            ELSE @[j]]]

\* A slip: the front slice keeps its capacity (attrs[:len] for attrs[:len:tail]).
carveKeepCap(mem, attrs) ==
    LET tail == attrs.cap - attrs.len IN
    IF tail >= attrs.len
    THEN LET a == [arr |-> attrs.arr, off |-> attrs.off + tail,
                   len |-> attrs.cap - tail, cap |-> attrs.cap - tail]
         IN [mem |-> copy(mem, a, attrs), a |-> a, attrs |-> attrs]
    ELSE LET m == make(mem, attrs.len)
         IN [mem |-> copy(m.mem, m.s, attrs), a |-> m.s, attrs |-> attrs]

\* A slip: the spare capacity is used whenever there is any (tail > 0).
carveLooseCheck(mem, attrs) ==
    LET tail == attrs.cap - attrs.len IN
    IF tail > 0
    THEN LET a == [arr |-> attrs.arr, off |-> attrs.off + tail,
                   len |-> attrs.cap - tail, cap |-> attrs.cap - tail]
             front == [attrs EXCEPT !.cap = tail]
         IN [mem |-> copy(mem, a, front), a |-> a, attrs |-> front]
    ELSE LET m == make(mem, attrs.len)
         IN [mem |-> copy(m.mem, m.s, attrs), a |-> m.s, attrs |-> attrs]

\* A slip: no copy at all, every child is handed attrs itself.
carveShare(mem, attrs) == [mem |-> mem, a |-> attrs, attrs |-> attrs]

\* The buffer for a child that is not the last: a, cut from the spare capacity
\* at the back of attrs if that holds len(attrs) cells, else allocated; then
\* copy(a, attrs).  Yields the memory, a, and attrs as it is afterwards.
carve(mem, attrs) ==
    LET tail == attrs.cap - attrs.len IN
    IF tail >= attrs.len
    THEN LET a == [arr |-> attrs.arr, off |-> attrs.off + tail,
                   len |-> attrs.cap - tail, cap |-> attrs.cap - tail]
             front == [attrs EXCEPT !.cap = tail]
         IN [mem |-> copy(mem, a, front), a |-> a, attrs |-> front]
    ELSE LET m == make(mem, attrs.len)
         IN [mem |-> copy(m.mem, m.s, attrs), a |-> m.s, attrs |-> attrs]

\* A leaf may retain the slice it is handed (slog.Handler: "the Handler owns
\* the slice"); the decoration keeps the slice and what it held at the call.
leafWithAttrs(h, mem, attrs) ==
    [mem |-> mem, h |-> [h EXCEPT !.decor = Append(@, AttrsDecor(attrs, Read(mem, attrs)))]]

handler0WithAttrs(h, mem, attrs) == [mem |-> mem, h |-> h]

handler2WithAttrs(arr, h, mem, attrs) ==
    LET c == carve(mem, attrs)
        r1 == HWithAttrs(arr, h.hs[1], c.mem, c.a)
        r2 == HWithAttrs(arr, h.hs[2], r1.mem, c.attrs)
    IN [mem |-> r2.mem, h |-> handler2(r1.h, r2.h)]

\* The loop of handlers.WithAttrs over hs[i .. len(hs)-1), filling hs2.
RECURSIVE attrsLoop(_, _, _, _, _, _)
attrsLoop(arr, h, i, mem, attrs, hs2) ==
    IF i > h.len - 1 THEN [mem |-> mem, attrs |-> attrs, hs2 |-> hs2]
    ELSE LET c == carve(mem, attrs)
             r == HWithAttrs(arr, SliceElems(arr, h)[i], c.mem, c.a)
         IN attrsLoop(arr, h, i + 1, r.mem, c.attrs, Append(hs2, r.h))

handlersWithAttrs(arr, h, mem, attrs) ==
    LET l == attrsLoop(arr, h, 1, mem, attrs, <<>>)
        r == HWithAttrs(arr, SliceElems(arr, h)[h.len], l.mem, l.attrs)
    IN [mem |-> r.mem, h |-> handlers(OwnSlice(Append(l.hs2, r.h)))]

\* h.WithAttrs(attrs) through the slog.Handler interface.
HWithAttrs(arr, h, mem, attrs) ==
    CASE h.kind = "leaf" -> leafWithAttrs(h, mem, attrs)
      [] h.kind = "handler0" -> handler0WithAttrs(h, mem, attrs)
      [] h.kind = "handler2" -> handler2WithAttrs(arr, h, mem, attrs)
      [] h.kind = "handlers" -> handlersWithAttrs(arr, h, mem, attrs)

\* The attribute array a caller builds: len attributes, spare cells zero.
CallerArray(len, cap) == [i \in 1..cap |-> IF i <= len THEN AttrVal(i) ELSE ZeroAttr]
CallerAttrs(len, cap) == [arr |-> 0, off |-> 0, len |-> len, cap |-> cap]

----------------------------------------------------------------------------
\* The caller's view.

LeafIds == 1..NLeaves
Leaves == {Leaf(k) : k \in LeafIds}
GroupNames == {"req"}
\* The (len, cap) of the attribute slices passed to WithAttrs in Spec.
SpecAttrShapes == {<<1, 1>>, <<1, 2>>}

\* What a handler fans out to: itself if it is a leaf, else its children.
LeavesOf(arr, h) ==
    CASE h.kind = "nil" -> <<>>
      [] h.kind = "leaf" -> <<h>>
      [] OTHER -> handlersOf(arr, h)

\* The non-absent leaves reached by expanding every composite in place.
RECURSIVE Expand(_)
RECURSIVE ExpandAll(_)
Expand(h) ==
    CASE h.kind = "nil" -> <<>>
      [] h.kind = "leaf" -> <<h>>
      [] h.kind = "handler0" -> <<>>
      [] h.kind = "handler2" -> ExpandAll(h.hs)
      [] h.kind = "handlers" -> ExpandAll(h.elems)
ExpandAll(seq) ==
    IF Len(seq) = 0 THEN <<>> ELSE Expand(Head(seq)) \o ExpandAll(Tail(seq))

DecorDepth(h) ==
    LET es == Expand(h) IN
    IF Len(es) = 0 THEN 0
    ELSE LET m == CHOOSE i \in 1..Len(es) :
                     \A j \in 1..Len(es) : Len(es[j].decor) <= Len(es[i].decor)
         IN Len(es[m].decor)

\* The leaves of Spec copy the attributes they are handed and drop the slice
\* (as slog's text and JSON handlers do): only vals stays in the decoration.
RECURSIVE Settle(_)
Settle(h) ==
    CASE h.kind = "leaf" ->
            [h EXCEPT !.decor = [k \in 1..Len(@) |-> [@[k] EXCEPT !.buf = NoBuf]]]
      [] h.kind = "handler2" -> handler2(Settle(h.hs[1]), Settle(h.hs[2]))
      [] h.kind = "handlers" ->
            [h EXCEPT !.elems = [k \in 1..Len(@) |-> Settle(@[k])]]
      [] OTHER -> h

\* The children of the handler the caller holds.
Kids == LeavesOf(slice, multi)

\* No call has a result pending.
Quiet == <<>>
NoRet == [en |-> FALSE, err |-> NoErr]

AttrIdle ==
    /\ amem = (0 :> <<>>)
    /\ acall = NoBuf
    /\ res = NilH
    /\ dirty = {}
    /\ alen = 0
ConcIdle ==
    /\ pc = <<>> /\ cop = <<>> /\ ci = <<>> /\ cattrs = <<>>
    /\ reads = <<>> /\ writes = <<>> /\ owned = <<>>

\* Before any call: an array of nil entries; Handlers() of nothing is handler0.
Init ==
    /\ slice = [i \in 1..SliceCap |-> NilH]
    /\ multi = handler0
    /\ expect = <<>>
    /\ made = <<>>
    /\ touched = 0
    /\ op = "none"
    /\ beh = Quiet
    /\ ret = NoRet
    /\ trace = <<>>
    /\ AttrIdle
    /\ ConcIdle

\* multi = Handlers(arr[:n]...), arr an array the caller has just filled.
Compose(arr, n) ==
    /\ Len(ExpandAll(SubSeq(arr, 1, n))) <= MaxFlat
    /\ LET r == Handlers(arr, CallerSlice(arr, n)) IN
        /\ slice' = r.arr
        /\ multi' = r.h
        /\ made' = LeavesOf(r.arr, r.h)
    /\ expect' = ExpandAll(SubSeq(arr, 1, n))
    /\ touched' = 0
    /\ op' = "Handlers" /\ beh' = Quiet /\ ret' = NoRet /\ trace' = <<>>

\* The caller writes cell i of the array it passed (within the arguments, or
\* in the capacity behind them).
Store(i, v) ==
    /\ touched < MaxWrites
    /\ i \in 1..Len(slice)
    /\ v # slice[i]
    /\ slice' = [slice EXCEPT ![i] = v]
    /\ touched' = touched + 1
    /\ op' = "store" /\ beh' = Quiet /\ ret' = NoRet /\ trace' = <<>>
    /\ UNCHANGED <<multi, expect, made>>

\* The caller is between two calls: every result has been taken.
Idle == op \notin {"Enabled", "Handle"}

\* multi.Enabled(ctx, level)
CallEnabled(b) ==
    /\ Idle
    /\ op' = "Enabled" /\ beh' = b
    /\ ret' = [en |-> HEnabled(slice, multi, b), err |-> NoErr]
    /\ trace' = <<>>
    /\ UNCHANGED <<slice, multi, expect, made, touched>>

\* multi.Handle(ctx, r)
CallHandle(b) ==
    /\ Idle
    /\ LET r == HHandle(slice, multi, HandleInit, 0, b) IN
        /\ ret' = [en |-> FALSE, err |-> r.err]
        /\ trace' = r.st.trace
    /\ op' = "Handle" /\ beh' = b
    /\ UNCHANGED <<slice, multi, expect, made, touched>>

\* The caller takes the result of its Enabled or Handle call.
Return ==
    /\ ~Idle
    /\ op' = "returned" /\ beh' = Quiet /\ ret' = NoRet /\ trace' = <<>>
    /\ UNCHANGED <<slice, multi, expect, made, touched>>

\* multi = multi.WithGroup(name)
CallWithGroup(name) ==
    /\ DecorDepth(multi) < MaxDecor
    /\ multi' = HWithGroup(slice, multi, name)
    /\ made' = LeavesOf(slice, multi')
    /\ op' = "WithGroup" /\ beh' = Quiet /\ ret' = NoRet /\ trace' = <<>>
    /\ UNCHANGED <<slice, expect, touched>>

\* multi = multi.WithAttrs(attrs), attrs a new slice of the given len and cap
CallWithAttrs(len, cap) ==
    /\ DecorDepth(multi) < MaxDecor
    /\ multi' = Settle(HWithAttrs(slice, multi, (0 :> CallerArray(len, cap)),
                                  CallerAttrs(len, cap)).h)
    /\ made' = LeavesOf(slice, multi')
    /\ op' = "WithAttrs" /\ beh' = Quiet /\ ret' = NoRet /\ trace' = <<>>
    /\ UNCHANGED <<slice, expect, touched>>

\* Spec: building.  The caller fills an array with nil, its leaves and the
\* handler it holds, joins a prefix of it, decorates the result, and may write
\* the array afterwards.
Next ==
    \/ \E arr \in [1..SliceCap -> {NilH, multi} \cup Leaves], n \in 0..SliceCap :
          /\ \A k \in (n + 1)..SliceCap : arr[k] = NilH
          /\ Compose(arr, n) /\ UNCHANGED <<attrVars, concVars>>
    \/ \E i \in 1..SliceCap, v \in {NilH, Leaf(NLeaves)} :
          Store(i, v) /\ UNCHANGED <<attrVars, concVars>>
    \/ \E name \in GroupNames : CallWithGroup(name) /\ UNCHANGED <<attrVars, concVars>>
    \/ \E sh \in SpecAttrShapes :
          CallWithAttrs(sh[1], sh[2]) /\ UNCHANGED <<attrVars, concVars>>

Spec == Init /\ [][Next]_vars

\* SpecCall: calling.  The caller joins n distinct leaves and calls Enabled
\* and Handle on the result, one call at a time, the leaves behaving in every
\* way.
NextCall ==
    \/ \E n \in 0..MaxKids :
          /\ Idle
          /\ Compose([i \in 1..n |-> Leaf(i)], n) /\ UNCHANGED <<attrVars, concVars>>
    \/ \E b \in [1..Len(expect) -> [en : BOOLEAN, fail : {FALSE}, mut : {FALSE}]] :
          CallEnabled(b) /\ UNCHANGED <<attrVars, concVars>>
    \/ \E b \in [1..Len(expect) -> Behaviour] :
          CallHandle(b) /\ UNCHANGED <<attrVars, concVars>>
    \/ Return /\ UNCHANGED <<attrVars, concVars>>

SpecCall == Init /\ [][NextCall]_vars

----------------------------------------------------------------------------
\* SpecAttrs: WithAttrs in memory.  A Pair or List of leaves that retain the
\* slice they are handed; the caller passes a slice of its own array 0 and
\* afterwards overwrites its elements or appends into its spare capacity.

\* What the caller writes into its array after the call.
Changed == <<"changed", 0>>
AttrShapes == {sh \in (0..MaxAttrLen) \X (0..MaxAttrCap) : sh[1] <= sh[2]}

\* The state after multi = Handlers(leaf 1, ..., leaf n).
Joined(n) ==
    LET arr == [i \in 1..n |-> Leaf(i)] IN
    /\ slice = arr
    /\ multi = Handlers(arr, CallerSlice(arr, n)).h
    /\ expect = arr
    /\ made = arr
    /\ touched = 0
    /\ op = "Handlers" /\ beh = Quiet /\ ret = NoRet /\ trace = <<>>

InitAttrs ==
    /\ \E n \in 2..MaxKids : Joined(n)
    /\ AttrIdle
    /\ ConcIdle

\* res = multi.WithAttrs(attrs), attrs = array0[:len:cap] newly filled
AWithAttrs(len, cap) ==
    /\ LET r == HWithAttrs(slice, multi, (0 :> CallerArray(len, cap)), CallerAttrs(len, cap)) IN
        /\ amem' = r.mem
        /\ res' = r.h
    /\ acall' = CallerAttrs(len, cap)
    /\ dirty' = {}
    /\ alen' = len

\* attrs[i] = x, after the call
AOverwrite(i) ==
    /\ res.kind # "nil"
    /\ i \in 0..(acall.len - 1)
    /\ i \notin dirty
    /\ amem' = [amem EXCEPT ![0][i + 1] = Changed]
    /\ dirty' = dirty \cup {i}
    /\ UNCHANGED <<acall, res, alen>>

\* attrs = append(attrs, x), after the call, while the capacity lasts
AAppend ==
    /\ res.kind # "nil"
    /\ alen < acall.cap
    /\ amem' = [amem EXCEPT ![0][alen + 1] = Changed]
    /\ dirty' = dirty \cup {alen}
    /\ alen' = alen + 1
    /\ UNCHANGED <<acall, res>>

NextAttrs ==
    \/ \E sh \in AttrShapes : AWithAttrs(sh[1], sh[2]) /\ UNCHANGED <<structVars, concVars>>
    \/ \E i \in 0..MaxAttrLen : AOverwrite(i) /\ UNCHANGED <<structVars, concVars>>
    \/ AAppend /\ UNCHANGED <<structVars, concVars>>

SpecAttrs == InitAttrs /\ [][NextAttrs]_vars

----------------------------------------------------------------------------
\* SpecConc: callers running Enabled, Handle, WithAttrs and WithGroup on the
\* same Pair or List at once, one child of the method's loop per step.  Each
\* call logs what the method itself reads and writes: the child list hs[i],
\* attribute cells, and the call's own errs and hs2.

\* Two callers: a conflict is between two calls.
Procs == {1, 2}
CallerArrays == {0, 1}
Methods == {"Enabled", "Handle", "WithAttrs", "WithGroup"}
Loc(k, a, i) == [k |-> k, a |-> a, i |-> i]
\* The cells s[0:len(s)].
ElemLocs(s) == {Loc("attr", s.arr, j) : j \in s.off .. (s.off + s.len - 1)}

InitConc ==
    /\ \E n \in 2..MaxKids : Joined(n)
    /\ \E sh \in AttrShapes :
          /\ amem = [a \in CallerArrays |-> CallerArray(sh[1], sh[2])]
          /\ acall = CallerAttrs(sh[1], sh[2])
    /\ res = NilH /\ dirty = {} /\ alen = 0
    /\ pc = [p \in Procs |-> "idle"]
    /\ cop = [p \in Procs |-> "none"]
    /\ ci = [p \in Procs |-> 0]
    /\ cattrs = [p \in Procs |-> NoBuf]
    /\ reads = [p \in Procs |-> {}]
    /\ writes = [p \in Procs |-> {}]
    /\ owned = [p \in Procs |-> {}]

\* Caller p enters method m; a WithAttrs call is given array a's slice.
CBegin(p, m, a) ==
    /\ pc[p] = "idle"
    /\ pc' = [pc EXCEPT ![p] = "run"]
    /\ cop' = [cop EXCEPT ![p] = m]
    /\ ci' = [ci EXCEPT ![p] = 1]
    /\ cattrs' = [cattrs EXCEPT ![p] = IF m = "WithAttrs" THEN [acall EXCEPT !.arr = a] ELSE NoBuf]
    /\ UNCHANGED <<amem, reads, writes, owned>>

\* One child of the loop of p's method.
CStep(p, en) ==
    LET i == ci[p]
        n == Len(Kids)
        c == carve(amem, cattrs[p])
        cut == cop[p] = "WithAttrs" /\ i < n
    IN
    /\ pc[p] = "run"
    /\ i <= n
    /\ reads' = [reads EXCEPT ![p] =
                    @ \cup {Loc("hs", 0, i)} \cup (IF cut THEN ElemLocs(c.attrs) ELSE {})]
    /\ writes' = [writes EXCEPT ![p] =
                    @ \cup (CASE cop[p] = "Enabled" -> {}
                              [] cop[p] = "Handle" -> {Loc("errs", p, i)}
                              [] cop[p] = "WithGroup" -> {Loc("hs2", p, i)}
                              [] cop[p] = "WithAttrs" ->
                                    {Loc("hs2", p, i)} \cup (IF cut THEN ElemLocs(c.a) ELSE {}))]
    /\ amem' = IF cut THEN c.mem ELSE amem
    /\ cattrs' = [cattrs EXCEPT ![p] = IF cut THEN c.attrs ELSE @]
    /\ owned' = [owned EXCEPT ![p] =
                    IF cut /\ c.a.arr \notin DOMAIN amem THEN @ \cup {c.a.arr} ELSE @]
    /\ ci' = [ci EXCEPT ![p] = IF cop[p] = "Enabled" /\ en THEN n + 1 ELSE i + 1]
    /\ UNCHANGED <<pc, cop>>

\* p's call returns; what it allocated goes with its result.
CEnd(p) ==
    /\ pc[p] = "run"
    /\ ci[p] > Len(Kids)
    /\ pc' = [pc EXCEPT ![p] = "idle"]
    /\ cop' = [cop EXCEPT ![p] = "none"]
    /\ ci' = [ci EXCEPT ![p] = 0]
    /\ cattrs' = [cattrs EXCEPT ![p] = NoBuf]
    /\ reads' = [reads EXCEPT ![p] = {}]
    /\ writes' = [writes EXCEPT ![p] = {}]
    /\ owned' = [owned EXCEPT ![p] = {}]
    /\ amem' = [a \in (DOMAIN amem) \ owned[p] |-> amem[a]]

NextConc ==
    \/ \E p \in Procs, m \in Methods, a \in CallerArrays :
          /\ (m # "WithAttrs" => a = 0)
          /\ CBegin(p, m, a) /\ UNCHANGED <<structVars, acall, res, dirty, alen>>
    \/ \E p \in Procs, en \in BOOLEAN :
          /\ (cop[p] # "Enabled" => en)
          /\ CStep(p, en) /\ UNCHANGED <<structVars, acall, res, dirty, alen>>
    \/ \E p \in Procs : CEnd(p) /\ UNCHANGED <<structVars, acall, res, dirty, alen>>

SpecConc == InitConc /\ [][NextConc]_vars

----------------------------------------------------------------------------
\* Properties of Enabled and Handle (SpecCall).

Composite == multi.kind \in {"handler2", "handlers"}
Positions(n) == [i \in 1..n |-> i]
CallEvents == SelectSeq(trace, LAMBDA e : e.ev = "call")
\* The children enabled at the record's level, by position, in child order.
EnabledKids == SelectSeq(Positions(Len(Kids)), LAMBDA i : beh[Kids[i].id].en)
\* The errors of the dispatched children, in child order.
FailedKids == SelectSeq(EnabledKids, LAMBDA i : beh[Kids[i].id].fail)
ChildErrors == [k \in 1..Len(FailedKids) |-> Err(Kids[FailedKids[k]].id)]

\* C1: in every Handle call on a Pair or List the children whose Handle is
\* invoked are exactly the children enabled at the record's level, each once,
\* in child order, whichever of them return errors.
C1_DispatchEnabledInOrder ==
    (op = "Handle" /\ Composite) =>
        [k \in 1..Len(CallEvents) |-> CallEvents[k].pos] = EnabledKids

\* A List call in which an early child fails, a later one is still dispatched
\* and another child is skipped as not enabled.
C1_Witness ==
    /\ op = "Handle" /\ multi.kind = "handlers"
    /\ \E i, j \in 1..Len(Kids) :
          /\ i < j
          /\ beh[Kids[i].id].en /\ beh[Kids[i].id].fail
          /\ beh[Kids[j].id].en
          /\ \E e \in 1..Len(trace) : trace[e].ev = "call" /\ trace[e].pos = j
    /\ \E i \in 1..Len(Kids) : ~beh[Kids[i].id].en

\* C2: Enabled of the handler returned for n >= 0 leaves is the OR of the
\* leaves' Enabled; false for n = 0 and when no leaf is enabled.
C2_EnabledIsOr ==
    (op = "Enabled") =>
        (ret.en <=> \E i \in 1..Len(expect) : beh[expect[i].id].en)

\* Three or more leaves, the first not enabled, a later one enabled.
C2_Witness ==
    /\ op = "Enabled" /\ Len(expect) >= 3
    /\ ~beh[expect[1].id].en
    /\ ret.en

\* C3: Handle on Empty, Pair or List returns nil if no dispatched child
\* failed, the error itself if exactly one did, and otherwise an aggregate of
\* exactly those errors in child order, in which each can be found.
C3_ErrorAggregation ==
    (op = "Handle" /\ internal(multi)) =>
        CASE Len(ChildErrors) = 0 -> ret.err = NoErr
          [] Len(ChildErrors) = 1 -> ret.err = ChildErrors[1]
          [] OTHER -> /\ ret.err.kind = "join"
                      /\ ret.err.errs = ChildErrors
                      /\ \A k \in 1..Len(ChildErrors) : Is(ret.err, ChildErrors[k])

\* Three children, the first and third failing with distinct errors and the
\* second succeeding: the aggregate holds the two errors and no third.
C3_Witness ==
    /\ op = "Handle" /\ multi.kind = "handlers" /\ multi.len = 3
    /\ beh[2].en /\ ~beh[2].fail
    /\ ret.err.kind = "join"
    /\ ret.err.errs = <<Err(1), Err(3)>>
    /\ Is(ret.err, Err(1)) /\ Is(ret.err, Err(3)) /\ ~Is(ret.err, Err(2))

\* C8: in every Handle call on a Pair or List only the last child can be
\* handed the caller's record (0), and only as the final dispatch, after every
\* copy has been taken and every earlier child has returned; every other
\* dispatched child gets a record of its own, and every child observes the
\* record as the caller passed it.
C8_RecordIsolation ==
    (op = "Handle" /\ Composite) =>
        /\ \A k \in 1..Len(trace) :
              (trace[k].ev = "call" /\ trace[k].rec = 0) =>
                  /\ trace[k].pos = Len(Kids)
                  /\ beh[Kids[Len(Kids)].id].en
                  /\ k = Len(trace) - 1
        /\ \A j, k \in 1..Len(CallEvents) :
              j # k => CallEvents[j].rec # CallEvents[k].rec
        /\ \A k \in 1..Len(trace) :
              trace[k].ev \in {"call", "clone"} => trace[k].saw = "orig"

\* A List call where every child is dispatched, an early child modifies its
\* record and the last child is handed the caller's record.
C8_Witness ==
    /\ op = "Handle" /\ multi.kind = "handlers"
    /\ Len(CallEvents) = Len(Kids)
    /\ beh[Kids[1].id].mut
    /\ \E k \in 1..Len(trace) :
          trace[k].ev = "ret" /\ trace[k].pos = 1 /\ trace[k].saw = "changed"
    /\ CallEvents[Len(CallEvents)].rec = 0

----------------------------------------------------------------------------
\* Properties of construction (Spec).

WellFormed(h) ==
    CASE h.kind = "leaf" -> TRUE
      [] h.kind = "handler0" -> TRUE
      [] h.kind = "handler2" -> \A i \in 1..2 : h.hs[i].kind = "leaf"
      [] h.kind = "handlers" ->
            /\ h.len >= 3
            /\ Len(SliceElems(slice, h)) = h.len
            /\ \A i \in 1..h.len : SliceElems(slice, h)[i].kind = "leaf"
      [] OTHER -> FALSE

\* C4: the handler returned by Handlers has as children exactly the non-absent
\* leaves its arguments expand to, in order, each occurrence once; it is the
\* very handler that joining those leaves directly gives.
C4_FlatteningEquivalence ==
    (op = "Handlers") =>
        /\ LeavesOf(slice, multi) = expect
        /\ multi = Handlers(expect, CallerSlice(expect, Len(expect))).h

\* A call whose arguments hold a composite after a leaf, and that returns a List.
C4_Witness ==
    /\ op = "Handlers" /\ multi.kind = "handlers"
    /\ \E i, j \in 1..Len(slice) :
          i < j /\ slice[i].kind = "leaf" /\ slice[j].kind \in {"handler2", "handlers"}

\* C6: whatever the caller writes to its array after Handlers has returned,
\* the returned handler's children stay what they were; a List never views the
\* caller's array.
C6_StructuralIsolation ==
    /\ LeavesOf(slice, multi) = made
    /\ multi.kind = "handlers" => multi.store = "own"

\* The caller has overwritten an argument of the call that returned a List.
C6_Witness ==
    /\ op = "store" /\ touched > 0
    /\ multi.kind = "handlers"
    /\ \E i \in 1..Len(made) : slice[i] # made[i] /\ made[i] = Leaf(1)

\* C10: every handler reachable by Handlers, WithAttrs and WithGroup is flat
\* and sized to its type: a Pair has two leaves and a List at least three,
\* none nil and none internal; one leaf is returned as it is, none gives
\* handler0.  So hs[len(hs)-1] is always in range.
C10_WellFormed ==
    /\ WellFormed(multi)
    /\ \A i \in 1..Len(slice) : slice[i].kind = "nil" \/ WellFormed(slice[i])
    /\ (op = "Handlers") =>
          CASE Len(expect) = 0 -> multi = handler0
            [] Len(expect) = 1 -> multi = expect[1]
            [] Len(expect) = 2 -> multi.kind = "handler2"
            [] OTHER -> multi.kind = "handlers" /\ multi.len = Len(expect)

\* A List of four decorated by WithAttrs, and one made from a decorated Pair.
C10_Witness ==
    /\ multi.kind = "handlers"
    /\ \/ op = "WithAttrs" /\ multi.len = MaxFlat
       \/ /\ op = "Handlers"
          /\ \E i \in 1..Len(slice) :
                slice[i].kind = "handler2" /\ Len(slice[i].hs[1].decor) > 0

----------------------------------------------------------------------------
\* Properties of WithAttrs (SpecAttrs).

ResKids == LeavesOf(slice, res)
Buf(k) == ResKids[k].decor[1].buf
\* What child k holds now, and what it was handed.
Held(k) == Read(amem, Buf(k))
Handed(k) == ResKids[k].decor[1].vals
Passed == [i \in 1..acall.len |-> AttrVal(i)]
Elements == 0..(acall.len - 1)

\* C5 as claimed: after WithAttrs has returned, no overwrite of the original
\* collection's elements and no append into its spare capacity changes the
\* attributes held by any child.
C5_CallerMutationNeverSeen ==
    (res.kind # "nil") => \A k \in 1..Len(ResKids) : Held(k) = Passed

\* C5 as amended: when WithAttrs returns every child holds the attributes as
\* passed.  Overwriting the original's elements changes no child but the
\* last, which is handed the caller's own elements; appending into the
\* original's spare capacity never changes the last child, and never a child
\* whose buffer was allocated rather than cut from that capacity.
C5_CallerMutationAmended ==
    (res.kind # "nil") =>
        LET n == Len(ResKids) IN
        /\ dirty = {} => \A k \in 1..n : Held(k) = Passed
        /\ dirty \subseteq Elements => \A k \in 1..(n - 1) : Held(k) = Passed
        /\ dirty \cap Elements = {} => Held(n) = Passed
        /\ \A k \in 1..n : Buf(k).arr # 0 => Held(k) = Passed
        /\ Buf(n) = [acall EXCEPT !.cap = Buf(n).cap]

\* After overwrites only, a child whose buffer was cut from the caller's spare
\* capacity still holds the attributes as passed.
C5_Witness ==
    /\ res.kind = "handlers"
    /\ dirty # {} /\ dirty \subseteq Elements
    /\ Buf(1).arr = 0 /\ Buf(1).len > 0
    /\ Held(1) = Passed
    /\ Held(Len(ResKids)) # Passed

\* C9: the buffers WithAttrs hands to the children are pairwise disjoint in
\* elements and capacity, each holds the attributes of attrs in order, and
\* the result is a new composite of the receiver's type, size and child order
\* while the receiver keeps its children.
C9_BuffersDisjoint ==
    (res.kind # "nil") =>
        LET n == Len(ResKids) IN
        /\ \A j, k \in 1..n : j # k => Cells(Buf(j)) \cap Cells(Buf(k)) = {}
        /\ \A k \in 1..n : Handed(k) = Passed /\ Buf(k).len = acall.len
        /\ dirty = {} => \A k \in 1..n : Held(k) = Passed
        /\ res.kind = multi.kind
        /\ n = Len(made)
        /\ \A k \in 1..n : ResKids[k].id = made[k].id
        /\ LeavesOf(slice, multi) = made

\* A List where two buffers are cut from the spare capacity and a third is
\* allocated because too little is left.
C9_Witness ==
    /\ res.kind = "handlers" /\ acall.len > 0
    /\ \E j, k, m \in 1..(Len(ResKids) - 1) :
          /\ j # k
          /\ Buf(j).arr = 0 /\ Buf(k).arr = 0
          /\ Buf(m).arr # 0

----------------------------------------------------------------------------
\* Properties of concurrent use (SpecConc).

Running(p) == pc[p] = "run"
\* Storage of p's call alone: its errs, its hs2, the arrays it allocated.
Private(p, l) ==
    \/ l.k \in {"errs", "hs2"} /\ l.a = p
    \/ l.k = "attr" /\ l.a \in owned[p]
Conflict(p, q) ==
    /\ p # q /\ Running(p) /\ Running(q)
    /\ writes[p] \cap (reads[q] \cup writes[q]) # {}

\* C7 as claimed: no two concurrent calls write to, or write and read, the
\* same storage, two WithAttrs calls given the same attributes included.
C7_NoConflict == \A p, q \in Procs : ~Conflict(p, q)

\* C7 as amended: the methods only read the child list; Enabled, Handle and
\* WithGroup write only storage private to the call; WithAttrs also writes the
\* spare capacity of the attribute collection it was given.  Two concurrent
\* calls conflict only if both are WithAttrs calls given the same collection
\* and its spare capacity is at least its non-zero length.
C7_ConflictOnlySharedAttrs ==
    /\ \A p \in Procs : \A l \in writes[p] :
          \/ Private(p, l)
          \/ /\ cop[p] = "WithAttrs"
             /\ l.k = "attr" /\ l.a = cattrs[p].arr /\ l.i >= acall.len
    /\ \A p, q \in Procs :
          Conflict(p, q) =>
              /\ cop[p] = "WithAttrs" /\ cop[q] = "WithAttrs"
              /\ cattrs[p].arr = cattrs[q].arr
              /\ acall.len > 0
              /\ acall.cap - acall.len >= acall.len

\* Two WithAttrs calls in flight on different collections, each having written
\* into the spare capacity of its own, and a third kind of call could overlap:
\* no conflict.
C7_Witness ==
    /\ Running(1) /\ Running(2)
    /\ cop[1] = "WithAttrs" /\ cop[2] = "WithAttrs"
    /\ cattrs[1].arr # cattrs[2].arr
    /\ \E l \in writes[1] : l.k = "attr" /\ l.a = 0
    /\ \E l \in writes[2] : l.k = "attr" /\ l.a = 1
    /\ ~Conflict(1, 2) /\ ~Conflict(2, 1)

====
